---- MODULE Spec2Model ----
(***************************************************************************)
(* A model of typst's custom content vtable                                *)
(* (crates/typst-library/src/foundations/content/vtable.rs): the element   *)
(* descriptor table and its builder, the field descriptor table, the       *)
(* handles that pair raw content with its vtable, and the raw content the   *)
(* vtable operations act on.                                               *)
(*                                                                         *)
(* Options are modelled as sets: None is {} and Some(x) is {x}.            *)
(* Function pointers are modelled as records naming the implementation      *)
(* and the element type it was instantiated for.                           *)
(***************************************************************************)
EXTENDS Integers, Sequences, FiniteSets, TLC

VARIABLES
    builder,    \* per element type: the vtable value under construction
    applied,    \* per element type: the modifiers applied so far
    last,       \* the last builder call: <<modifier, element type>>
    heap,       \* raw content allocations, by address
    held,       \* per thread and address: the references the thread owns
    pending,    \* per thread: the address whose count it brought to zero
    misuse,     \* per address: a vtable operation ran where it must not
    dupOf,      \* per address: the payload it was cloned from, if any
    call,       \* the last field or content operation and its result
    cell,       \* per element type: the lazy element store's cell
    spc         \* per thread: its position in the store's initialization

vars == <<builder, applied, last, heap, held, pending, misuse, dupOf,
          call, cell, spc>>

buildVars == <<builder, applied, last>>
heapVars == <<heap, held, pending, misuse, dupOf>>
storeVars == <<cell, spc>>

-----------------------------------------------------------------------------
(* Options *)

None == {}

Some(x) == {x}

IsSome(o) == o # {}

Unwrap(o) == CHOOSE x \in o : TRUE

\* Option::map
OptMap(o, F(_)) == {F(x) : x \in o}

-----------------------------------------------------------------------------
(* Element types and their fields *)

\* The native elements of the model. "figure" is built with all modifiers'
\* traits available; "space" is a plain element.
Elems == {"figure", "space"}

\* The values of a plain field.
Vals == {1, 2}

\* The longest array a foldable field holds in the model.
MaxListLen == 2

\* A function pointer: the implementation and what it was instantiated for.
Fn(impl, E) == [impl |-> impl, elem |-> E]

FieldFn(impl, E, i) == [impl |-> impl, elem |-> E, id |-> i]

\* The vtable of a required field: stored inline, always present.
RequiredField(E, i, name) ==
    [name |-> name, docs |-> "", positional |-> TRUE, variadic |-> FALSE,
     required |-> TRUE, settable |-> FALSE, synthesized |-> FALSE,
     input |-> FieldFn("input", E, i),
     default |-> None,
     has |-> FieldFn("required", E, i),
     get |-> FieldFn("required", E, i),
     get_with_styles |-> FieldFn("required", E, i),
     get_from_styles |-> FieldFn("required", E, i),
     materialize |-> FieldFn("required", E, i),
     eq |-> FieldFn("required", E, i)]

\* The vtable of a settable field; kind is "settable" for a plain field and
\* "fold" for a field whose type implements Fold.
SettableField(E, i, name, kind) ==
    [name |-> name, docs |-> "", positional |-> FALSE, variadic |-> FALSE,
     required |-> FALSE, settable |-> TRUE, synthesized |-> FALSE,
     input |-> FieldFn("input", E, i),
     default |-> Some(FieldFn(kind, E, i)),
     has |-> FieldFn(kind, E, i),
     get |-> FieldFn(kind, E, i),
     get_with_styles |-> FieldFn(kind, E, i),
     get_from_styles |-> FieldFn(kind, E, i),
     materialize |-> FieldFn(kind, E, i),
     eq |-> FieldFn(kind, E, i)]

\* The static field vtables of each element, indexed by field id + 1.
FieldsOf(E) ==
    IF E = "figure"
    THEN << RequiredField(E, 0, "body"),
            SettableField(E, 1, "gap", "settable"),
            SettableField(E, 2, "kinds", "fold") >>
    ELSE << RequiredField(E, 0, "amount"),
            SettableField(E, 1, "weak", "settable") >>

\* The generated field-name matcher of each element.
FieldId(E, name) ==
    LET hits == {i \in 1..Len(FieldsOf(E)) : FieldsOf(E)[i].name = name}
    IN  IF hits = {} THEN None ELSE Some((CHOOSE i \in hits : TRUE) - 1)

\* The default value a settable field's `default` function produces.
DefaultValue(fn) == IF fn.impl = "fold" THEN <<>> ELSE 0

-----------------------------------------------------------------------------
(* ContentVtable and its builder *)

\* The keyword slices the builder is handed in the model.
KeywordSets == {<<"kw1">>, <<"kw1", "kw2">>}

\* ContentVtable::new
new(E, name, title, docs, fields, field_id, capability, store) ==
    [T |-> <<"Packed", E>>,
     name |-> name, title |-> title, docs |-> docs,
     keywords |-> <<>>,
     fields |-> fields,
     field_id |-> field_id,
     construct |-> Fn("Construct::construct", E),
     set |-> Fn("Set::set", E),
     local_name |-> None,
     scope |-> Fn("Scope::new", E),
     capability |-> capability,
     drop |-> Fn("RawContent::drop_impl", E),
     clone |-> Fn("RawContent::clone_impl", E),
     hash |-> Fn("hash128(elem.as_ref())", E),
     debug |-> Fn("Debug::fmt(elem.as_ref())", E),
     eq |-> None,
     repr |-> None,
     store |-> store]

\* ContentVtable<Packed<E>>::with_keywords
with_keywords(vt, keywords) == [vt EXCEPT !.keywords = keywords]

\* with_repr assigning the eq slot
with_repr_eq(vt) == [vt EXCEPT !.eq = Some(Fn("E::repr", vt.T[2]))]

\* ContentVtable<Packed<E>>::with_repr
with_repr(vt) == [vt EXCEPT !.repr = Some(Fn("E::repr", vt.T[2]))]

\* ContentVtable<Packed<E>>::with_partial_eq
with_partial_eq(vt) == [vt EXCEPT !.eq = Some(Fn("E::eq", vt.T[2]))]

\* ContentVtable<Packed<E>>::with_local_name
with_local_name(vt) ==
    [vt EXCEPT !.local_name = Some(Fn("LocalName::local_name", vt.T[2]))]

\* ContentVtable<Packed<E>>::with_scope
with_scope(vt) == [vt EXCEPT !.scope = Fn("E::scope", vt.T[2])]

\* ContentVtable<Packed<E>>::erase: the transmute changes the type
\* parameter and no bit of the value.
erase(vt) == [vt EXCEPT !.T = <<"RawContent">>]

\* The arguments the element macro hands to ContentVtable::new.
NewFor(E) ==
    new(E, E, E, "docs", FieldsOf(E), Fn("field_id", E), Fn("capability", E),
        Fn("store", E))

\* The static vtable the element macro generates for each element: "figure"
\* opts into every trait, "space" into none.
ElemVtable(E) ==
    IF E = "figure"
    THEN erase(with_scope(with_local_name(with_partial_eq(with_repr(
             with_keywords(NewFor(E), <<"kw1">>))))))
    ELSE erase(NewFor(E))

\* The address of an element's static vtable: a field of statics that share it
VtableAddrMerged(E) == 1

\* The address of an element's static vtable: each static has its own.
VtableAddr(E) == IF E = "figure" THEN 1 ELSE 2

\* The element whose static vtable lives at an address.
ElemAt(addr) == CHOOSE E \in Elems : VtableAddr(E) = addr

\* Dereferences a vtable pointer.
VtableAt(addr) == ElemVtable(ElemAt(addr))

\* ContentVtable::field
ContentVtable_field(vt, id) ==
    IF id + 1 \in 1..Len(vt.fields) THEN Some(vt.fields[id + 1]) ELSE None

-----------------------------------------------------------------------------
(* Style chains (an external collaborator) *)

\* The longest style chain in the model.
MaxChain == 2

\* One link of a style chain: a property of one field of one element.
StyleEntries ==
    [elem : {"figure"}, id : {1}, value : {2}]
        \cup [elem : {"figure"}, id : {2}, value : {<<1>>, <<2>>}]
        \cup [elem : {"space"}, id : {1}, value : {2}]

\* Sequences over S of length at most n.
SeqsUpTo(S, n) == UNION {[1..k -> S] : k \in 0..n}

\* A style chain, innermost link first.
Chains == SeqsUpTo(StyleEntries, MaxChain)

\* The style chains the threads of the sharing specification resolve against.
SharedChains == {<<>>}

\* The values a chain holds for a field, innermost first.
Contribs(fn, chain) ==
    LET hit(e) == e.elem = fn.elem /\ e.id = fn.id
        links == SelectSeq(chain, hit)
    IN  [k \in 1..Len(links) |-> links[k].value]

\* Fold for arrays: the outer value extended by the inner one.
Fold(inner, outer) == outer \o inner

RECURSIVE FoldAll(_, _)
\* Folds a run of values, innermost first, onto the default.
FoldAll(values, default) ==
    IF values = <<>> THEN default
    ELSE Fold(values[1], FoldAll(Tail(values), default))

\* StyleChain::get for a field, given the element's own value if any.
StyleGet(fn, chain, local) ==
    LET values == (IF IsSome(local) THEN <<Unwrap(local)>> ELSE <<>>)
                      \o Contribs(fn, chain)
    IN  IF fn.impl = "fold" THEN FoldAll(values, DefaultValue(fn))
        ELSE IF Len(values) = 0 THEN DefaultValue(fn)
        ELSE values[1]

-----------------------------------------------------------------------------
(* The field implementations behind a FieldVtable's function pointers.     *)
(* `data` is the element: one option per field, at index field id + 1.      *)

Slot(fn, data) == data[fn.id + 1]

\* FieldVtable::has
Call_has(fn, data) ==
    IF fn.impl = "required" THEN TRUE ELSE IsSome(Slot(fn, data))

\* FieldVtable::get
Call_get(fn, data) == Slot(fn, data)

\* FieldVtable::get_with_styles
Call_get_with_styles(fn, data, styles) ==
    IF fn.impl = "required" THEN Slot(fn, data)
    ELSE Some(StyleGet(fn, styles, Slot(fn, data)))

\* FieldVtable::get_from_styles
Call_get_from_styles(fn, styles) ==
    IF fn.impl = "required" THEN None
    ELSE Some(StyleGet(fn, styles, None))

\* FieldVtable::materialize that overwrites a field that is already set
Call_materialize_overwrite(fn, data, styles) ==
    IF fn.impl = "required" THEN data
    ELSE [data EXCEPT ![fn.id + 1] = Some(StyleGet(fn, styles, None))]

\* FieldVtable::materialize: sets the field from the styles if it is unset,
\* or merges it with the style data for a Fold field.
Call_materialize(fn, data, styles) ==
    IF fn.impl = "required" THEN data
    ELSE IF fn.impl = "fold"
    THEN [data EXCEPT ![fn.id + 1] = Some(StyleGet(fn, styles, Slot(fn, data)))]
    ELSE IF IsSome(Slot(fn, data)) THEN data
    ELSE [data EXCEPT ![fn.id + 1] = Some(StyleGet(fn, styles, None))]

\* FieldVtable::eq
Call_eq(fn, a, b) == Slot(fn, a) = Slot(fn, b)

-----------------------------------------------------------------------------
(* Raw content: reference-counted allocations of a header and an element *)

\* The number of allocations in the model.
MaxRecs == 2

\* The number of threads in the model.
NumThreads == 2

\* The highest reference count in the model.
MaxRefs == 3

Addrs == 1..MaxRecs

Threads == 1..NumThreads

\* An address nothing was allocated at.
\* `dropped` counts the runs of the vtable's drop on the allocation.
\* `made` is the element the constructor was called for.
FreeCell ==
    [st |-> "free", vt |-> 0, refs |-> 0, data |-> <<>>, dropped |-> 0,
     made |-> "none"]

\* The elements the threads of the sharing specification construct.
SharedPayloads(E) ==
    IF E = "figure"
    THEN {<<Some(1), g, Some(<<1>>)>> : g \in {None, Some(1)}}
    ELSE {<<Some(b), Some(1)>> : b \in Vals}

\* The elements a constructor can produce.
Payloads(E) ==
    IF E = "figure"
    THEN {<<Some(b), g, k>> :
            b \in {1},
            g \in {None} \cup {Some(v) : v \in Vals},
            k \in {None, Some(<<1>>)}}
    ELSE {<<Some(b), g>> :
            b \in Vals, g \in {None} \cup {Some(v) : v \in Vals}}

\* Packed<E>::as_ref: the element without the header.
AsRef(packed) == packed.data

\* The bytes an element feeds to a hasher: per field a tag, then the value.
Encode(E, data) ==
    LET one(i) ==
            IF ~IsSome(data[i]) THEN <<0>>
            ELSE IF FieldsOf(E)[i].has.impl = "fold"
            THEN <<2, Len(Unwrap(data[i]))>> \o Unwrap(data[i])
            ELSE <<1, Unwrap(data[i])>>
        F[i \in 0..Len(data)] == IF i = 0 THEN <<>> ELSE F[i - 1] \o one(i)
    IN  F[Len(data)]

\* The width of the digest in the model, in place of 128 bits.
HashMod == 2 ^ 16

RECURSIVE HashFrom(_, _)
HashFrom(h, bytes) ==
    IF bytes = <<>> THEN h
    ELSE HashFrom((h * 31 + Head(bytes) + 1) % HashMod, Tail(bytes))

\* typst_utils::hash128
Hash128(bytes) == HashFrom(7, bytes)

\* The hash slot, hashing the header along with the element
Call_hash_packed(fn, packed) ==
    Hash128(<<packed.refs>> \o Encode(fn.elem, AsRef(packed)))

\* ContentVtable::hash as set by ContentVtable::new
Call_hash(fn, packed) == Hash128(Encode(fn.elem, AsRef(packed)))

\* ContentVtable::debug as set by ContentVtable::new
Call_debug(fn, packed) == <<"Debug::fmt", fn.elem, AsRef(packed)>>

\* ContentVtable::eq as set by with_partial_eq; E::eq compares the fields.
Call_content_eq(fn, a, b) == AsRef(a) = AsRef(b)

\* ContentVtable::repr as set by with_repr
Call_repr(fn, packed) == <<"E::repr", fn.elem, AsRef(packed)>>

\* RawContent::clone_impl: a new allocation with a header of its own.
Call_clone(fn, h, a, n) ==
    [heap |-> [h EXCEPT ![n] = [st |-> "live", vt |-> h[a].vt, refs |-> 1,
                                 data |-> h[a].data, dropped |-> 0,
                                 made |-> h[a].made]],
     ptr |-> n]

\* RawContent::drop_impl: drops the element and frees the allocation. The
\* freed memory keeps its bytes until it is reused, which the model never does.
Call_drop(fn, h, a) ==
    [h EXCEPT ![a].st = "freed", ![a].dropped = @ + 1]

-----------------------------------------------------------------------------
(* Handles: content paired with its matching vtable *)

\* RawContent::handle: the vtable the content points to (Handle::new's
\* safety requirement).
HandleVtable(h, a) == VtableAt(h[a].vt)

\* RawContent::is: compares the content's vtable pointer with E's.
Is(h, a, E) == h[a].vt = VtableAddr(E)

\* ContentHandle::field
ContentHandle_field(vt, id) ==
    IF id + 1 \in 1..Len(vt.fields) THEN Some(vt.fields[id + 1]) ELSE None

\* ContentHandle::fields
ContentHandle_fields(vt) == vt.fields

\* ContentHandle<&RawContent>::debug
ContentHandle_debug(vt, packed) == Call_debug(vt.debug, packed)

\* ContentHandle<&RawContent>::repr
ContentHandle_repr(vt, packed) ==
    OptMap(vt.repr, LAMBDA f : Call_repr(f, packed))

\* ContentHandle::clone handing back a bitwise copy of the content
ContentHandle_clone_alias(vt, h, a, n) == [heap |-> h, ptr |-> a]

\* ContentHandle<&RawContent>::clone
ContentHandle_clone(vt, h, a, n) == Call_clone(vt.clone, h, a, n)

\* ContentHandle<&RawContent>::hash
ContentHandle_hash(vt, packed) == Call_hash(vt.hash, packed)

\* ContentHandle::drop that does not reach the vtable's drop
ContentHandle_drop_skip(vt, h, a) == h

\* ContentHandle<&mut RawContent>::drop
ContentHandle_drop(vt, h, a) == Call_drop(vt.drop, h, a)

\* ContentHandle<(&RawContent, &RawContent)>::eq
ContentHandle_eq(vt, pa, pb) ==
    OptMap(vt.eq, LAMBDA f : Call_content_eq(f, pa, pb))

\* FieldHandle<&RawContent>::has
FieldHandle_has(fvt, packed) == Call_has(fvt.has, AsRef(packed))

\* FieldHandle<&RawContent>::get
FieldHandle_get(fvt, packed) == Call_get(fvt.get, AsRef(packed))

\* FieldHandle::get_with_styles calling the get slot
FieldHandle_get_with_styles_get(fvt, packed, styles) ==
    Call_get(fvt.get, AsRef(packed))

\* FieldHandle<&RawContent>::get_with_styles
FieldHandle_get_with_styles(fvt, packed, styles) ==
    Call_get_with_styles(fvt.get_with_styles, AsRef(packed), styles)

\* FieldHandle::materialize that does not reach the vtable's materialize
FieldHandle_materialize_skip(fvt, packed, styles) == packed

\* FieldHandle<&mut RawContent>::materialize
FieldHandle_materialize(fvt, packed, styles) ==
    [packed EXCEPT !.data = Call_materialize(fvt.materialize, AsRef(packed), styles)]

\* FieldHandle<(&RawContent, &RawContent)>::eq
FieldHandle_eq(fvt, pa, pb) == Call_eq(fvt.eq, AsRef(pa), AsRef(pb))

\* Content's PartialEq: the elements match and the vtable's eq, or else every
\* field's eq, says the contents are equal.
Equality(h, a, b) ==
    /\ h[a].vt = h[b].vt
    /\ LET vt == HandleVtable(h, a)
           direct == ContentHandle_eq(vt, h[a], h[b])
       IN  IF IsSome(direct) THEN Unwrap(direct)
           ELSE \A i \in 1..Len(ContentHandle_fields(vt)) :
                    FieldHandle_eq(ContentHandle_fields(vt)[i], h[a], h[b])

-----------------------------------------------------------------------------
(* Operations on raw content *)

NoCall == [op |-> "none", a |-> 0, b |-> 0, id |-> 0, styles |-> <<>>, ret |-> 0]

Called(op, a, b, id, styles, ret) ==
    [op |-> op, a |-> a, b |-> b, id |-> id, styles |-> styles, ret |-> ret]

\* The references all threads own to an allocation.
TotalHeld(hd, a) ==
    LET S[t \in 0..NumThreads] == IF t = 0 THEN 0 ELSE S[t - 1] + hd[t][a]
    IN  S[NumThreads]

\* The lowest free address, if any.
Fresh(h) == {a \in Addrs : h[a].st = "free" /\ \A b \in 1..(a - 1) : h[b].st # "free"}

\* Records that an operation used the allocation at `a`.
Touched(a) == [misuse EXCEPT ![a] = @ \/ heap[a].st # "live"]

\* The field ids of the element at `a`.
FieldIds(h, a) == 0..(Len(HandleVtable(h, a).fields) - 1)

FieldOf(h, a, id) == Unwrap(ContentHandle_field(HandleVtable(h, a), id))

\* The element's constructor: new content with a reference count of one.
Construct(t, E, data) ==
    /\ UNCHANGED <<buildVars, storeVars>>
    /\ pending[t] = 0
    /\ \E a \in Fresh(heap) :
        /\ heap' = [heap EXCEPT ![a] = [st |-> "live", vt |-> VtableAddr(E),
                                        refs |-> 1, data |-> data, dropped |-> 0,
                                        made |-> E]]
        /\ held' = [held EXCEPT ![t][a] = 1]
    /\ call' = NoCall
    /\ UNCHANGED <<pending, misuse, dupOf>>

\* RawContent's Clone: one more reference, handed to thread u.
Share(t, a, u) ==
    /\ UNCHANGED <<buildVars, storeVars>>
    /\ pending[t] = 0
    /\ held[t][a] > 0
    /\ heap[a].refs < MaxRefs
    /\ heap' = [heap EXCEPT ![a].refs = @ + 1]
    /\ held' = [held EXCEPT ![u][a] = @ + 1]
    /\ misuse' = Touched(a)
    /\ call' = NoCall
    /\ UNCHANGED <<pending, dupOf>>

\* The test after the decrement, taking any decrement for the last
IsLastRefAny(prev) == prev >= 1

\* RawContent's Drop: whether the decrement released the last reference.
IsLastRef(prev) == prev = 1

\* RawContent's Drop, first step: the atomic decrement of the count.
DropRef(t, a) ==
    /\ UNCHANGED <<buildVars, storeVars>>
    /\ pending[t] = 0
    /\ held[t][a] > 0
    /\ heap' = [heap EXCEPT ![a].refs = @ - 1]
    /\ held' = [held EXCEPT ![t][a] = @ - 1]
    /\ pending' = [pending EXCEPT ![t] = IF IsLastRef(heap[a].refs) THEN a ELSE 0]
    /\ misuse' = Touched(a)
    /\ call' = NoCall
    /\ UNCHANGED dupOf

\* RawContent's Drop, second step: the thread that released the last
\* reference runs the vtable's drop through the handle.
DropFinish(t) ==
    /\ UNCHANGED <<buildVars, storeVars>>
    /\ pending[t] # 0
    /\ LET a == pending[t] IN
        /\ misuse' = [misuse EXCEPT ![a] =
                          @ \/ heap[a].st # "live" \/ heap[a].refs # 0]
        /\ heap' = ContentHandle_drop(HandleVtable(heap, a), heap, a)
    /\ pending' = [pending EXCEPT ![t] = 0]
    /\ call' = NoCall
    /\ UNCHANGED <<held, dupOf>>

\* ContentHandle::clone: the vtable's clone of the content at `a`.
Duplicate(t, a) ==
    /\ UNCHANGED <<buildVars, storeVars>>
    /\ pending[t] = 0
    /\ held[t][a] > 0
    /\ \E n \in Fresh(heap) :
        LET res == ContentHandle_clone(HandleVtable(heap, a), heap, a, n) IN
        /\ heap' = res.heap
        /\ held' = [held EXCEPT ![t][res.ptr] = @ + 1]
        /\ dupOf' = [dupOf EXCEPT ![res.ptr] =
                         Some([src |-> a, data |-> heap[a].data])]
        /\ call' = Called("clone", a, res.ptr, 0, <<>>, 0)
    /\ misuse' = Touched(a)
    /\ UNCHANGED pending

\* ContentHandle::hash
Hash(t, a) ==
    /\ UNCHANGED <<buildVars, storeVars>>
    /\ pending[t] = 0
    /\ held[t][a] > 0
    /\ call' = Called("hash", a, 0, 0, <<>>,
                      ContentHandle_hash(HandleVtable(heap, a), heap[a]))
    /\ misuse' = Touched(a)
    /\ UNCHANGED <<heap, held, pending, dupOf>>

\* ContentHandle::debug
Debug(t, a) ==
    /\ UNCHANGED <<buildVars, storeVars>>
    /\ pending[t] = 0
    /\ held[t][a] > 0
    /\ call' = Called("debug", a, 0, 0, <<>>,
                      ContentHandle_debug(HandleVtable(heap, a), heap[a]))
    /\ misuse' = Touched(a)
    /\ UNCHANGED <<heap, held, pending, dupOf>>

\* ContentHandle::repr
Repr(t, a) ==
    /\ UNCHANGED <<buildVars, storeVars>>
    /\ pending[t] = 0
    /\ held[t][a] > 0
    /\ call' = Called("repr", a, 0, 0, <<>>,
                      ContentHandle_repr(HandleVtable(heap, a), heap[a]))
    /\ misuse' = Touched(a)
    /\ UNCHANGED <<heap, held, pending, dupOf>>

\* Content's PartialEq on two contents of one element, through
\* ContentHandle::eq and FieldHandle::eq.
Eq(t, a, b) ==
    /\ UNCHANGED <<buildVars, storeVars>>
    /\ pending[t] = 0
    /\ held[t][a] > 0
    /\ held[t][b] > 0
    /\ a # b
    /\ call' = Called("eq", a, b, 0, <<>>, Equality(heap, a, b))
    /\ misuse' = [misuse EXCEPT ![a] = @ \/ heap[a].st # "live",
                                ![b] = @ \/ heap[b].st # "live"]
    /\ UNCHANGED <<heap, held, pending, dupOf>>

\* FieldHandle::has
Has(t, a, id) ==
    /\ UNCHANGED <<buildVars, storeVars>>
    /\ pending[t] = 0
    /\ held[t][a] > 0
    /\ id \in FieldIds(heap, a)
    /\ call' = Called("has", a, 0, id, <<>>,
                      FieldHandle_has(FieldOf(heap, a, id), heap[a]))
    /\ misuse' = Touched(a)
    /\ UNCHANGED <<heap, held, pending, dupOf>>

\* FieldHandle::get
Get(t, a, id) ==
    /\ UNCHANGED <<buildVars, storeVars>>
    /\ pending[t] = 0
    /\ held[t][a] > 0
    /\ id \in FieldIds(heap, a)
    /\ call' = Called("get", a, 0, id, <<>>,
                      FieldHandle_get(FieldOf(heap, a, id), heap[a]))
    /\ misuse' = Touched(a)
    /\ UNCHANGED <<heap, held, pending, dupOf>>

\* FieldHandle::get_with_styles
GetWithStyles(t, a, id, styles) ==
    /\ UNCHANGED <<buildVars, storeVars>>
    /\ pending[t] = 0
    /\ held[t][a] > 0
    /\ id \in FieldIds(heap, a)
    /\ call' = Called("get_with_styles", a, 0, id, styles,
                      FieldHandle_get_with_styles(FieldOf(heap, a, id), heap[a], styles))
    /\ misuse' = Touched(a)
    /\ UNCHANGED <<heap, held, pending, dupOf>>

\* Whether every array of the element is within the model's length bound.
WithinBound(packed) ==
    \A i \in 1..Len(packed.data) :
        LET fvt == VtableAt(packed.vt).fields[i] IN
        (fvt.has.impl = "fold" /\ IsSome(packed.data[i]))
            => Len(Unwrap(packed.data[i])) <= MaxListLen

\* FieldHandle::materialize, on content the thread has unique access to.
Materialize(t, a, id, styles) ==
    /\ UNCHANGED <<buildVars, storeVars>>
    /\ pending[t] = 0
    /\ held[t][a] = 1
    /\ heap[a].refs = 1
    /\ id \in FieldIds(heap, a)
    /\ LET after == FieldHandle_materialize(FieldOf(heap, a, id), heap[a], styles) IN
        /\ WithinBound(after)
        /\ heap' = [heap EXCEPT ![a] = after]
    /\ call' = Called("materialize", a, 0, id, styles, 0)
    /\ misuse' = Touched(a)
    /\ UNCHANGED <<held, pending, dupOf>>

-----------------------------------------------------------------------------
(* The specification of raw content shared between threads *)

InitBuild ==
    /\ builder = [E \in Elems |-> None]
    /\ applied = [E \in Elems |-> {}]
    /\ last = <<"none", "none">>

InitHeap ==
    /\ heap = [a \in Addrs |-> FreeCell]
    /\ held = [t \in Threads |-> [a \in Addrs |-> 0]]
    /\ pending = [t \in Threads |-> 0]
    /\ misuse = [a \in Addrs |-> FALSE]
    /\ dupOf = [a \in Addrs |-> None]
    /\ call = NoCall

InitStore ==
    /\ cell = [E \in Elems |-> [state |-> "incomplete", value |-> None, inits |-> 0]]
    /\ spc = [t \in Threads |-> [at |-> "idle", elem |-> "none", seen |-> None]]

Init == InitBuild /\ InitHeap /\ InitStore

Next ==
    \/ \E t \in Threads, E \in Elems : \E data \in SharedPayloads(E) :
           Construct(t, E, data)
    \/ \E t \in Threads, a \in Addrs, u \in Threads : Share(t, a, u)
    \/ \E t \in Threads, a \in Addrs : DropRef(t, a)
    \/ \E t \in Threads : DropFinish(t)
    \/ \E t \in Threads, a \in Addrs : Duplicate(t, a)
    \/ \E t \in Threads, a \in Addrs : Hash(t, a)
    \/ \E t \in Threads, a \in Addrs : Debug(t, a)
    \/ \E t \in Threads, a \in Addrs : Repr(t, a)
    \/ \E t \in Threads, a \in Addrs, b \in Addrs : Eq(t, a, b)
    \/ \E t \in Threads, a \in Addrs, id \in 0..2 : Has(t, a, id)
    \/ \E t \in Threads, a \in Addrs, id \in 0..2 : Get(t, a, id)
    \/ \E t \in Threads, a \in Addrs, id \in 0..2, styles \in SharedChains :
           GetWithStyles(t, a, id, styles)
    \/ \E t \in Threads, a \in Addrs, id \in 0..2, styles \in SharedChains :
           Materialize(t, a, id, styles)

Spec == Init /\ [][Next]_vars

-----------------------------------------------------------------------------
(* The specification of the field operations on one element *)

\* One element, constructed by thread 1 with any of the constructor's
\* arguments, and no call made yet.
InitFields ==
    /\ InitBuild
    /\ InitStore
    /\ \E E \in Elems : \E data \in Payloads(E) :
           heap = [a \in Addrs |->
                      IF a = 1
                      THEN [st |-> "live", vt |-> VtableAddr(E), refs |-> 1,
                            data |-> data, dropped |-> 0, made |-> E]
                      ELSE FreeCell]
    /\ held = [t \in Threads |-> [a \in Addrs |-> IF t = 1 /\ a = 1 THEN 1 ELSE 0]]
    /\ pending = [t \in Threads |-> 0]
    /\ misuse = [a \in Addrs |-> FALSE]
    /\ dupOf = [a \in Addrs |-> None]
    /\ call = NoCall

NextFields ==
    \/ \E t \in Threads, a \in Addrs, id \in 0..2 : Has(t, a, id)
    \/ \E t \in Threads, a \in Addrs, id \in 0..2 : Get(t, a, id)
    \/ \E t \in Threads, a \in Addrs, id \in 0..2, styles \in Chains :
           GetWithStyles(t, a, id, styles)
    \/ \E t \in Threads, a \in Addrs, id \in 0..2, styles \in Chains :
           Materialize(t, a, id, styles)
    \/ \E t \in Threads, a \in Addrs : DropRef(t, a)
    \/ \E t \in Threads : DropFinish(t)

SpecFields == InitFields /\ [][NextFields]_vars

-----------------------------------------------------------------------------
(* The specification of the vtable builder *)

IsTyped(b) == IsSome(b) /\ Unwrap(b).T[1] = "Packed"

BuildNew(E) ==
    /\ UNCHANGED <<heapVars, call, storeVars>>
    /\ builder[E] = None
    /\ builder' = [builder EXCEPT ![E] = Some(NewFor(E))]
    /\ last' = <<"new", E>>
    /\ UNCHANGED applied

BuildWithKeywords(E, keywords) ==
    /\ UNCHANGED <<heapVars, call, storeVars>>
    /\ IsTyped(builder[E])
    /\ builder' = [builder EXCEPT ![E] = Some(with_keywords(Unwrap(@), keywords))]
    /\ applied' = [applied EXCEPT ![E] = @ \cup {"with_keywords"}]
    /\ last' = <<"with_keywords", E>>

BuildWithRepr(E) ==
    /\ UNCHANGED <<heapVars, call, storeVars>>
    /\ IsTyped(builder[E])
    /\ builder' = [builder EXCEPT ![E] = Some(with_repr(Unwrap(@)))]
    /\ applied' = [applied EXCEPT ![E] = @ \cup {"with_repr"}]
    /\ last' = <<"with_repr", E>>

BuildWithPartialEq(E) ==
    /\ UNCHANGED <<heapVars, call, storeVars>>
    /\ IsTyped(builder[E])
    /\ builder' = [builder EXCEPT ![E] = Some(with_partial_eq(Unwrap(@)))]
    /\ applied' = [applied EXCEPT ![E] = @ \cup {"with_partial_eq"}]
    /\ last' = <<"with_partial_eq", E>>

BuildWithLocalName(E) ==
    /\ UNCHANGED <<heapVars, call, storeVars>>
    /\ IsTyped(builder[E])
    /\ builder' = [builder EXCEPT ![E] = Some(with_local_name(Unwrap(@)))]
    /\ applied' = [applied EXCEPT ![E] = @ \cup {"with_local_name"}]
    /\ last' = <<"with_local_name", E>>

BuildWithScope(E) ==
    /\ UNCHANGED <<heapVars, call, storeVars>>
    /\ IsTyped(builder[E])
    /\ builder' = [builder EXCEPT ![E] = Some(with_scope(Unwrap(@)))]
    /\ applied' = [applied EXCEPT ![E] = @ \cup {"with_scope"}]
    /\ last' = <<"with_scope", E>>

BuildErase(E) ==
    /\ UNCHANGED <<heapVars, call, storeVars>>
    /\ IsTyped(builder[E])
    /\ builder' = [builder EXCEPT ![E] = Some(erase(Unwrap(@)))]
    /\ last' = <<"erase", E>>
    /\ UNCHANGED applied

NextBuild ==
    \/ \E E \in Elems : BuildNew(E)
    \/ \E E \in Elems, keywords \in KeywordSets : BuildWithKeywords(E, keywords)
    \/ \E E \in Elems : BuildWithRepr(E)
    \/ \E E \in Elems : BuildWithPartialEq(E)
    \/ \E E \in Elems : BuildWithLocalName(E)
    \/ \E E \in Elems : BuildWithScope(E)
    \/ \E E \in Elems : BuildErase(E)

SpecBuild == Init /\ [][NextBuild]_vars

-----------------------------------------------------------------------------
(* The specification of the per-element lazy store *)

\* ContentVtable::store: the static LazyElementStore of the vtable's element.
store(vt) == vt.store.elem

\* The data the initializer computes for an element; the thread that ran it
\* is kept to tell two runs apart.
StoreData(E, t) == <<"store", E, t>>

\* Whether a thread that found the cell not complete may start the
\* initializer, without the compare-and-swap that admits one thread only
MayInitRacy(c) == c.state # "complete"

\* Whether a thread that found the cell not complete may start the
\* initializer: only the one whose compare-and-swap finds it incomplete.
MayInit(c) == c.state = "incomplete"

\* A thread obtains the store of an element through its vtable.
StoreCall(t, E) ==
    /\ UNCHANGED <<buildVars, heapVars, call>>
    /\ spc[t].at \in {"idle", "done"}
    /\ spc' = [spc EXCEPT ![t] = [at |-> "check", elem |-> store(ElemVtable(E)),
                                   seen |-> None]]
    /\ UNCHANGED cell

\* The first access: read the cell if it is complete, else become the
\* initializer or wait for it.
StoreCheck(t) ==
    /\ UNCHANGED <<buildVars, heapVars, call>>
    /\ spc[t].at = "check"
    /\ LET E == spc[t].elem IN
        IF cell[E].state = "complete"
        THEN /\ spc' = [spc EXCEPT ![t].at = "done", ![t].seen = cell[E].value]
             /\ UNCHANGED cell
        ELSE IF MayInit(cell[E])
        THEN /\ cell' = [cell EXCEPT ![E].state = "running"]
             /\ spc' = [spc EXCEPT ![t].at = "init"]
        ELSE /\ spc' = [spc EXCEPT ![t].at = "wait"]
             /\ UNCHANGED cell

\* The initializer runs and its value is committed.
StoreInit(t) ==
    /\ UNCHANGED <<buildVars, heapVars, call>>
    /\ spc[t].at = "init"
    /\ LET E == spc[t].elem IN
        /\ cell' = [cell EXCEPT ![E] = [state |-> "complete",
                                        value |-> Some(StoreData(E, t)),
                                        inits |-> @.inits + 1]]
        /\ spc' = [spc EXCEPT ![t].at = "done", ![t].seen = Some(StoreData(E, t))]

\* A waiting thread is released once the cell is complete.
StoreWake(t) ==
    /\ UNCHANGED <<buildVars, heapVars, call>>
    /\ spc[t].at = "wait"
    /\ cell[spc[t].elem].state = "complete"
    /\ spc' = [spc EXCEPT ![t].at = "done", ![t].seen = cell[spc[t].elem].value]
    /\ UNCHANGED cell

NextStore ==
    \/ \E t \in Threads, E \in Elems : StoreCall(t, E)
    \/ \E t \in Threads : StoreCheck(t)
    \/ \E t \in Threads : StoreInit(t)
    \/ \E t \in Threads : StoreWake(t)

SpecStore == Init /\ [][NextStore]_vars

-----------------------------------------------------------------------------
(* Properties of shared raw content *)

Allocated(a) == heap[a].st # "free"

Live(a) == heap[a].st = "live"

\* No thread is inside the drop of the allocation.
NoDropRunning(a) == \A t \in Threads : pending[t] # a

\* C1: while any thread owns a reference to an allocation, the vtable's drop
\* has not run on it; once every reference is dropped (and the drop that
\* released the last one has returned), it has run exactly once.
C1_DroppedExactlyOnce ==
    \A a \in Addrs :
        Allocated(a) =>
            /\ TotalHeld(held, a) > 0 => (heap[a].dropped = 0 /\ Live(a))
            /\ heap[a].dropped <= 1
            /\ (TotalHeld(held, a) = 0 /\ NoDropRunning(a)) => heap[a].dropped = 1

\* One content was dropped while every thread owns a reference to another.
C1_Witness ==
    \E a \in Addrs, b \in Addrs :
        /\ heap[a].dropped = 1
        /\ TotalHeld(held, a) = 0
        /\ Live(b)
        /\ \A t \in Threads : held[t][b] > 0

\* C2: the vtable's drop runs only on content whose reference count is zero,
\* and once it has run no operation (clone, hash, debug, repr, eq, has, get,
\* get_with_styles, materialize, a second drop) runs on that content.
C2_NoUseAfterDrop ==
    \A a \in Addrs :
        /\ ~misuse[a]
        /\ heap[a].dropped <= 1
        /\ heap[a].dropped = 1 =>
               (heap[a].refs = 0 /\ TotalHeld(held, a) = 0 /\ heap[a].st = "freed")

\* An operation ran on live content after another content was dropped.
C2_Witness ==
    \E a \in Addrs :
        /\ heap[a].dropped = 1
        /\ call.op \in {"hash", "debug", "repr", "has", "get", "get_with_styles",
                         "materialize", "clone"}
        /\ call.a # a
        /\ Live(call.a)

\* The state part of C3.
C3_State ==
    \A p \in Addrs :
        IsSome(dupOf[p]) =>
            LET d == Unwrap(dupOf[p]) IN
            /\ p # d.src
            /\ TotalHeld(held, p) > 0 => (Live(p) /\ heap[p].refs >= 1)
            /\ (call.op = "clone" /\ call.b = p) =>
                   /\ Live(call.a)
                   /\ Equality(heap, call.a, p)
                   /\ heap[p].refs = 1
                   /\ Len(heap[p].data) = Len(HandleVtable(heap, p).fields)
                   /\ heap[p].data = d.data

\* The step part of C3: a step changes a clone only by operating on it.
C3_Step ==
    \A p \in Addrs :
        (IsSome(dupOf[p]) /\ Live(p) /\ heap'[p] # heap[p]) =>
            \/ \E t \in Threads : held'[t][p] # held[t][p]
            \/ \E t \in Threads : pending[t] = p
            \/ (call'.op = "materialize" /\ call'.a = p)

\* C3: the vtable's clone returns new, fully populated content that is
\* equal to the original and has a reference count of its own: it stays
\* alive and unchanged when the references to the original are dropped.
C3_CloneIndependent == []C3_State /\ [][C3_Step]_vars

\* A clone is alive and as it was cloned after its original was dropped.
C3_Witness ==
    \E p \in Addrs :
        /\ IsSome(dupOf[p])
        /\ heap[Unwrap(dupOf[p]).src].st = "freed"
        /\ Live(p)
        /\ TotalHeld(held, p) > 0
        /\ heap[p].data = Unwrap(dupOf[p]).data

\* Two live contents of one element with equal fields.
LogicallyEqual(a, b) ==
    /\ Live(a)
    /\ Live(b)
    /\ heap[a].made = heap[b].made
    /\ heap[a].data = heap[b].data

\* C4: two contents of one element with equal fields compare equal, by the
\* vtable's eq where the element has one and by the field vtables' eq where
\* ContentHandle::eq returns None, and they hash alike whatever their
\* reference counts and addresses.
C4_EqualContentsAgree ==
    /\ (call.op = "eq" /\ LogicallyEqual(call.a, call.b)) =>
           /\ call.ret = TRUE
           /\ LET vt == HandleVtable(heap, call.a)
                  direct == ContentHandle_eq(vt, heap[call.a], heap[call.b])
              IN  IF IsSome(direct) THEN Unwrap(direct)
                  ELSE \A i \in 1..Len(vt.fields) :
                           FieldHandle_eq(vt.fields[i], heap[call.a], heap[call.b])
    /\ call.op = "hash" =>
           \A b \in Addrs :
               LogicallyEqual(call.a, b) =>
                   call.ret = ContentHandle_hash(HandleVtable(heap, b), heap[b])

\* A content was hashed while an equal one with another reference count
\* exists at another address.
C4_Witness ==
    /\ call.op = "hash"
    /\ \E b \in Addrs :
           /\ b # call.a
           /\ LogicallyEqual(call.a, b)
           /\ heap[b].refs # heap[call.a].refs

-----------------------------------------------------------------------------
(* Properties of the field operations *)

\* Whether the field's type implements Fold.
IsFold(fvt) == fvt.materialize.impl = "fold"

\* The field's default value.
DefaultOf(fvt) == DefaultValue(Unwrap(fvt.default))

\* The arrays of a run of values joined from the outermost to the innermost.
Joined(values) ==
    LET J[k \in 0..Len(values)] ==
            IF k = 0 THEN <<>> ELSE values[k] \o J[k - 1]
    IN  J[Len(values)]

\* The value the styles alone give a settable field: the innermost link of a
\* plain field, every link of a foldable field, else the default.
FromStyles(fvt, styles) ==
    LET values == Contribs(fvt.get, styles)
    IN  IF Len(values) = 0 THEN DefaultOf(fvt)
        ELSE IF IsFold(fvt) THEN Joined(values)
        ELSE values[1]

\* The step is a materialize of field id of the content at a.
MaterializeStep(a, id) ==
    /\ call'.op = "materialize"
    /\ call'.a = a
    /\ call'.id = id
    /\ <<heap, call>>' # <<heap, call>>

\* The fields of the content at a, before and after the step.
HasNow(a, id) == FieldHandle_has(FieldOf(heap, a, id), heap[a])

HasNext(a, id) == FieldHandle_has(FieldOf(heap, a, id), heap'[a])

GetNow(a, id) == FieldHandle_get(FieldOf(heap, a, id), heap[a])

GetNext(a, id) == FieldHandle_get(FieldOf(heap, a, id), heap'[a])

\* The state part of C5: has reports whether the settable field is stored.
C5_State ==
    /\ \A a \in Addrs : Live(a) =>
           \A id \in FieldIds(heap, a) :
               FieldOf(heap, a, id).settable =>
                   (HasNow(a, id) <=> IsSome(heap[a].data[id + 1]))
    /\ (call.op = "has" /\ FieldOf(heap, call.a, call.id).settable) =>
           (call.ret <=> IsSome(heap[call.a].data[call.id + 1]))

\* The step part of C5.
C5_Step ==
    \A a \in Addrs : (Live(a) /\ heap'[a].st = "live") =>
        \A id \in FieldIds(heap, a) :
            FieldOf(heap, a, id).settable =>
                /\ (~HasNow(a, id) /\ HasNext(a, id)) => MaterializeStep(a, id)
                /\ (MaterializeStep(a, id) /\ ~HasNow(a, id)) =>
                       /\ HasNext(a, id)
                       /\ GetNext(a, id) =
                              Some(FromStyles(FieldOf(heap, a, id), call'.styles))
                /\ (MaterializeStep(a, id) /\ HasNow(a, id)
                        /\ ~IsFold(FieldOf(heap, a, id))) =>
                       GetNext(a, id) = GetNow(a, id)

C6_Original ==
    [][\A a \in Addrs : \A id \in 0..2 :
          (MaterializeStep(a, id) /\ HasNow(a, id)) => heap'[a] = heap[a]]_vars

\* The step part of C6 as amended.
C6_Step ==
    \A a \in Addrs : \A id \in 0..2 :
        MaterializeStep(a, id) =>
            LET fvt == FieldOf(heap, a, id)
                before == heap[a].data
                after == heap'[a].data
            IN  /\ heap'[a] = [heap[a] EXCEPT !.data = after]
                /\ Len(after) = Len(before)
                /\ \A j \in 1..Len(before) : j # id + 1 => after[j] = before[j]
                /\ ~fvt.settable => after = before
                /\ (fvt.settable /\ ~IsSome(before[id + 1])) =>
                       after[id + 1] = Some(FromStyles(fvt, call'.styles))
                /\ (fvt.settable /\ IsSome(before[id + 1]) /\ ~IsFold(fvt)) =>
                       after = before
                /\ (fvt.settable /\ IsSome(before[id + 1]) /\ IsFold(fvt)) =>
                       after[id + 1] =
                           Some(Joined(<<Unwrap(before[id + 1])>>
                                           \o Contribs(fvt.get, call'.styles)))

\* The state part of C6 as amended: materializing a field that is not
\* foldable again, with the same styles, changes nothing.
C6_State ==
    (call.op = "materialize" /\ Live(call.a)) =>
        LET fvt == FieldOf(heap, call.a, call.id) IN
        ~IsFold(fvt) =>
            FieldHandle_materialize(fvt, heap[call.a], call.styles) = heap[call.a]

\* C6, amended: materialize changes no field but its own; it writes the
\* styles' value into a field that is absent, leaves a present field that is
\* not foldable as it is (so a second materialize changes nothing), and
\* replaces a present foldable field by its value folded with the styles'.
C6_MaterializeAmended == []C6_State /\ [][C6_Step]_vars

\* A plain field that was present was materialized against styles that hold
\* another value for it, and kept its own.
C6_Witness ==
    /\ call.op = "materialize"
    /\ call.id = 1
    /\ Live(call.a)
    /\ heap[call.a].data[2] = Some(1)
    /\ Contribs(FieldOf(heap, call.a, 1).get, call.styles) # <<>>

\* C7: get_with_styles of a foldable field that the content does not hold,
\* under styles with two links for it, returns both links' arrays joined,
\* not the innermost alone; for a field that is not foldable it returns the
\* content's value if present, else the styles' value.
C7_GetWithStyles ==
    (call.op = "get_with_styles" /\ Live(call.a)) =>
        LET fvt == FieldOf(heap, call.a, call.id)
            own == heap[call.a].data[call.id + 1]
            values == Contribs(fvt.get, call.styles)
        IN  /\ (IsFold(fvt) /\ ~IsSome(own) /\ Len(values) = 2) =>
                   /\ call.ret = Some(values[2] \o values[1])
                   /\ call.ret # Some(values[1])
            /\ (~IsFold(fvt) /\ IsSome(own)) => call.ret = own
            /\ (~IsFold(fvt) /\ ~IsSome(own)) =>
                   call.ret = Some(IF values = <<>> THEN DefaultOf(fvt) ELSE values[1])

\* A foldable field the content does not hold was read under two links
\* that differ.
C7_Witness ==
    /\ call.op = "get_with_styles"
    /\ Live(call.a)
    /\ IsFold(FieldOf(heap, call.a, call.id))
    /\ ~IsSome(heap[call.a].data[call.id + 1])
    /\ LET values == Contribs(FieldOf(heap, call.a, call.id).get, call.styles)
       IN  Len(values) = 2 /\ values[1] # values[2]

-----------------------------------------------------------------------------
(* Properties of the lazy store *)

\* C9: under concurrent first access the store of an element is initialized
\* at most once: one initializer's value is committed, every thread whose
\* access has returned saw that value, and none saw the cell without it.
C9_StoreInitOnce ==
    /\ \A E \in Elems :
           /\ cell[E].inits <= 1
           /\ cell[E].state = "complete" <=> cell[E].inits = 1
           /\ cell[E].state = "complete" <=> IsSome(cell[E].value)
           /\ Cardinality({t \in Threads : spc[t].at = "init" /\ spc[t].elem = E}) <= 1
    /\ \A t \in Threads :
           spc[t].at = "done" =>
               /\ IsSome(spc[t].seen)
               /\ spc[t].seen = cell[spc[t].elem].value
               /\ Unwrap(spc[t].seen)[2] = spc[t].elem

\* Every thread's access to one element's store has returned, each with the
\* value the one initializer committed.
C9_Witness ==
    \E E \in Elems :
        /\ cell[E].inits = 1
        /\ \A t \in Threads :
               spc[t].at = "done" /\ spc[t].elem = E /\ spc[t].seen = cell[E].value

-----------------------------------------------------------------------------
(* Properties of the vtable builder *)

\* The slot each modifier assigns.
SlotOf(modifier) ==
    CASE modifier = "with_keywords" -> "keywords"
      [] modifier = "with_repr" -> "repr"
      [] modifier = "with_partial_eq" -> "eq"
      [] modifier = "with_local_name" -> "local_name"
      [] modifier = "with_scope" -> "scope"
      [] modifier = "erase" -> "T"

\* The state part of C10.
C10_State ==
    \A E \in Elems :
        IsSome(builder[E]) =>
            LET vt == Unwrap(builder[E]) IN
            /\ vt.eq = None <=> "with_partial_eq" \notin applied[E]
            /\ vt.repr = None <=> "with_repr" \notin applied[E]
            /\ vt.local_name = None <=> "with_local_name" \notin applied[E]
            /\ vt.scope.impl = "Scope::new" <=> "with_scope" \notin applied[E]
            /\ "with_keywords" \notin applied[E] => vt.keywords = <<>>
            /\ last = <<"new", E>> =>
                   /\ vt.eq = None
                   /\ vt.repr = None
                   /\ vt.local_name = None
                   /\ vt.keywords = <<>>
                   /\ vt.scope.impl = "Scope::new"
            /\ vt.T = <<"RawContent">> =>
                   \A pa \in Payloads(E), pb \in Payloads(E) :
                       LET a == [FreeCell EXCEPT !.st = "live", !.data = pa]
                           b == [FreeCell EXCEPT !.st = "live", !.data = pb]
                       IN  /\ ContentHandle_eq(vt, a, b) = None
                                  <=> "with_partial_eq" \notin applied[E]
                           /\ ContentHandle_repr(vt, a) = None
                                  <=> "with_repr" \notin applied[E]
                           /\ ContentHandle_eq(vt, a, b) \subseteq BOOLEAN

\* The step part of C10: a modifier, and erase, change their own slot only.
C10_Step ==
    \A E \in Elems :
        builder'[E] # builder[E] =>
            /\ last'[2] = E
            /\ \A F \in Elems \ {E} : builder'[F] = builder[F]
            /\ IF builder[E] = None
               THEN last'[1] = "new" /\ builder'[E] = Some(NewFor(E))
               ELSE LET slot == SlotOf(last'[1])
                        old == Unwrap(builder[E])
                        now == Unwrap(builder'[E])
                    IN  now = [old EXCEPT ![slot] = now[slot]]

\* C10: ContentVtable::new leaves eq, repr and local_name unset, keywords
\* empty and the scope the empty one; each modifier changes its own slot
\* only, in any order, and erase changes no slot; so ContentHandle::eq and
\* ContentHandle::repr return None exactly if with_partial_eq and with_repr
\* were never applied.
C10_BuilderSlots == []C10_State /\ [][C10_Step]_vars

\* An erased vtable built with with_repr and with_keywords and without
\* with_partial_eq.
C10_Witness ==
    \E E \in Elems :
        /\ IsSome(builder[E])
        /\ Unwrap(builder[E]).T = <<"RawContent">>
        /\ applied[E] = {"with_repr", "with_keywords"}
        /\ Unwrap(builder[E]).eq = None
        /\ IsSome(Unwrap(builder[E]).repr)

====
